---------------------------- MODULE Spec2Model ----------------------------
(***************************************************************************)
(* A model of the wy_module character driver (wy_module.c).                *)
(*                                                                         *)
(* One loader thread runs wy_module_init and then wy_module_exit, one      *)
(* kernel call per step.  Client threads call the four file operations;    *)
(* every read or write of a static variable is a step of its own, so the   *)
(* unsynchronised accesses of the driver interleave as they can on SMP.    *)
(*                                                                         *)
(* The kernel (register_chrdev, class_create, device_create and their      *)
(* inverses, try_module_get, module_put) is the environment: its state is  *)
(* kept in chrdev, classState, deviceState, authLog, modGets and modPuts.  *)
(*                                                                         *)
(* Pointers are integers: 0 is NULL, a positive number a valid handle and  *)
(* a negative number ERR_PTR(-errno).  A return value is meaningful only   *)
(* once its thread is at a returned position ("done", "init_done", ...).   *)
(***************************************************************************)
EXTENDS Integers, Sequences, FiniteSets, TLC

\* ------------------------------------------------------------------
\* Bounds of the model
\* ------------------------------------------------------------------

\* Number of client threads.
NumClients == 2

\* Number of file-operation calls each client thread makes when the calls are
\* made one after the other, and when the threads run concurrently.
MaxCalls == 2
MaxRacingCalls == 2

\* Number of bytes of a params_t in the model.  The C type has three
\* four-byte fields; the transfer loops treat every byte alike.
SizeofParams == 3

\* ------------------------------------------------------------------
\* Program constants and input sets
\* ------------------------------------------------------------------

EBUSY == 16

Clients == 1..NumClients

\* Error codes the kernel may give for a failed registration step.
AuthorityErrors == {-12, -16}

\* The major number register_chrdev(0, ...) allocates when it succeeds.
Majors == {240}

\* Handles class_create and device_create return on success.
ClassHandle == 1
DeviceHandle == 2

\* User memory handed to write: byte i of buffer b is 10 * b + i, so that
\* every byte tells its buffer and its place.  A buffer is one byte longer
\* than a record, so that every length of Lengths is backed.
WriteBufs == {[i \in 1..SizeofParams + 1 |-> 10 * b + i] : b \in 1..2}

\* Lengths handed to read and write.
Lengths == {SizeofParams - 1, SizeofParams, SizeofParams + 1}

\* A user read buffer before the driver touched it.
Untouched == [i \in 1..SizeofParams + 1 |-> -1]

VARIABLES
    \* static variables of the driver
    wy_module_open_count,
    wy_module_major_num,
    params,
    wy_module_class,
    wy_module_device,
    \* the kernel
    chrdev,        \* the set of major numbers registered with our fops
    classState,    \* "none", "live" or "freed"
    deviceState,   \* "none", "live" or "destroyed"
    authLog,       \* the kernel calls of init and exit and their results, in order
    modGets,       \* number of try_module_get calls
    modPuts,       \* number of module_put calls
    \* the loader thread
    lpc,
    initRet,
    \* the callers: TRUE when they make their calls one after the other
    serial,
    \* the client threads
    pc, op, len, buf, idx, tmp, ret, ubuf, calls, entry,
    \* history of the serial callers (left empty when the threads run
    \* concurrently, where "the most recent call" is not defined)
    lastWritten,   \* the bytes of the most recent write that returned sizeof(params_t)
    lastRead       \* the bytes the most recent read returned, if no write stored a byte since

driverVars == <<wy_module_open_count, wy_module_major_num, params,
                wy_module_class, wy_module_device>>
kernelVars == <<chrdev, classState, deviceState, authLog>>
modVars    == <<modGets, modPuts>>
loaderVars == <<lpc, initRet>>
clientVars == <<pc, op, len, buf, idx, tmp, ret, ubuf, calls, entry>>
modeVars   == <<serial>>
ghostVars  == <<lastWritten, lastRead>>
vars == <<driverVars, kernelVars, modVars, loaderVars, clientVars, modeVars, ghostVars>>

Start ==
    /\ wy_module_open_count = 0
    /\ wy_module_major_num = 0
    /\ params = [i \in 1..SizeofParams |-> 0]
    /\ wy_module_class = 0
    /\ wy_module_device = 0
    /\ chrdev = {}
    /\ classState = "none"
    /\ deviceState = "none"
    /\ authLog = <<>>
    /\ modGets = 0
    /\ modPuts = 0
    /\ lpc = "init_register"
    /\ initRet = 0
    /\ pc = [c \in Clients |-> "idle"]
    /\ op = [c \in Clients |-> "none"]
    /\ len = [c \in Clients |-> 0]
    /\ buf = [c \in Clients |-> <<>>]
    /\ idx = [c \in Clients |-> 0]
    /\ tmp = [c \in Clients |-> 0]
    /\ ret = [c \in Clients |-> 0]
    /\ ubuf = [c \in Clients |-> Untouched]
    /\ calls = [c \in Clients |-> 0]
    /\ entry = [c \in Clients |-> 0]
    /\ lastWritten = <<>>
    /\ lastRead = <<>>

\* The threads run concurrently.
Init == Start /\ serial = FALSE

\* The calls are made one after the other.
SeqInit == Start /\ serial = TRUE

ClientsResting == \A c \in Clients : pc[c] = "idle"

LoaderResting == lpc \in {"init_register", "init_done", "init_failed", "exit_done", "oops"}

\* The loader may take a step: when the calls are serial, no client call is
\* under way.
LoaderMayStep == serial => ClientsResting

\* A client may start a call: when the calls are serial, no other call is
\* under way.
ClientMayCall == serial => (ClientsResting /\ LoaderResting)

\* The number of calls a client makes.
CallBudget == IF serial THEN MaxCalls ELSE MaxRacingCalls

\* ------------------------------------------------------------------
\* Kernel helpers
\* ------------------------------------------------------------------

IS_ERR(p) == p < 0

\* An entry of authLog: a kernel call and what it returned (0 for a call
\* that returns nothing).
Logged(call, result) == [call |-> call, result |-> result]

PTR_ERR(p) == p

\* ------------------------------------------------------------------
\* wy_module_init, one kernel call per step
\* ------------------------------------------------------------------

\* wy_module_major_num = register_chrdev(0, "wy_module", &fops);
\* if (wy_module_major_num < 0) return wy_module_major_num;
InitRegister ==
    /\ lpc = "init_register"
    /\ LoaderMayStep
    /\ \E r \in Majors \cup AuthorityErrors :
          /\ wy_module_major_num' = r
          /\ chrdev' = IF r < 0 THEN chrdev ELSE chrdev \cup {r}
          /\ IF r < 0
                THEN lpc' = "init_failed" /\ initRet' = r
                ELSE lpc' = "init_class" /\ initRet' = initRet
          /\ authLog' = Append(authLog, Logged("register_chrdev", r))
    /\ UNCHANGED <<wy_module_open_count, params, wy_module_class,
                   wy_module_device, classState, deviceState,
                   modVars, clientVars, modeVars, ghostVars>>

\* Mutant: the result of class_create is not checked.
InitClassCreate_NoCheck ==
    /\ lpc = "init_class"
    /\ LoaderMayStep
    /\ \E r \in {ClassHandle} \cup AuthorityErrors :
          /\ wy_module_class' = r
          /\ classState' = IF r < 0 THEN classState ELSE "live"
          /\ lpc' = "init_device"
          /\ authLog' = Append(authLog, Logged("class_create", r))
    /\ UNCHANGED <<wy_module_open_count, wy_module_major_num, params,
                   wy_module_device, chrdev, deviceState, initRet,
                   modVars, clientVars, modeVars, ghostVars>>

\* wy_module_class = class_create(THIS_MODULE, CLASS_NAME);
InitClassCreate ==
    /\ lpc = "init_class"
    /\ LoaderMayStep
    /\ \E r \in {ClassHandle} \cup AuthorityErrors :
          /\ wy_module_class' = r
          /\ classState' = IF IS_ERR(r) THEN classState ELSE "live"
          /\ lpc' = IF IS_ERR(r) THEN "init_class_undo" ELSE "init_device"
          /\ authLog' = Append(authLog, Logged("class_create", r))
    /\ UNCHANGED <<wy_module_open_count, wy_module_major_num, params,
                   wy_module_device, chrdev, deviceState, initRet,
                   modVars, clientVars, modeVars, ghostVars>>

\* Mutant: the error pointer is lost and the failure is returned as 0.
InitClassFailRet_Zero == PTR_ERR(0)

\* The value wy_module_init returns when class_create failed.
InitClassFailRet == PTR_ERR(wy_module_class)

\* Mutant: the major number is not given back when class_create failed.
InitClassUndo_NoUnregister ==
    /\ lpc = "init_class_undo"
    /\ LoaderMayStep
    /\ lpc' = "init_failed"
    /\ initRet' = InitClassFailRet
    /\ UNCHANGED <<driverVars, kernelVars, modVars, clientVars, modeVars, ghostVars>>

\* unregister_chrdev(wy_module_major_num, DEVICE_NAME);
\* return PTR_ERR(wy_module_class);
InitClassUndo ==
    /\ lpc = "init_class_undo"
    /\ LoaderMayStep
    /\ chrdev' = chrdev \ {wy_module_major_num}
    /\ authLog' = Append(authLog, Logged("unregister_chrdev", 0))
    /\ lpc' = "init_failed"
    /\ initRet' = InitClassFailRet
    /\ UNCHANGED <<driverVars, classState, deviceState, modVars, clientVars, modeVars, ghostVars>>

\* wy_module_device = device_create(wy_module_class, NULL,
\*                                  MKDEV(wy_module_major_num, 0), NULL, DEVICE_NAME);
InitDeviceCreate ==
    /\ lpc = "init_device"
    /\ LoaderMayStep
    /\ \E r \in {DeviceHandle} \cup AuthorityErrors :
          /\ wy_module_device' = r
          /\ deviceState' = IF IS_ERR(r) THEN deviceState ELSE "live"
          /\ IF IS_ERR(r)
                THEN lpc' = "init_device_undo_class" /\ initRet' = initRet
                ELSE lpc' = "init_done" /\ initRet' = 0
          /\ authLog' = Append(authLog, Logged("device_create", r))
    /\ UNCHANGED <<wy_module_open_count, wy_module_major_num, params,
                   wy_module_class, chrdev, classState,
                   modVars, clientVars, modeVars, ghostVars>>

\* Mutant: the class pointer is returned in place of the device pointer.
InitDeviceFailRet_ClassPtr == PTR_ERR(wy_module_class)

\* The value wy_module_init returns when device_create failed.
InitDeviceFailRet == PTR_ERR(wy_module_device)

\* Mutant: the two rollback calls are made in the order of acquisition.
InitDeviceUndoClass_Swapped ==
    /\ lpc = "init_device_undo_class"
    /\ LoaderMayStep
    /\ chrdev' = chrdev \ {wy_module_major_num}
    /\ classState' = "freed"
    /\ authLog' = authLog \o <<Logged("unregister_chrdev", 0), Logged("class_destroy", 0)>>
    /\ lpc' = "init_failed"
    /\ initRet' = InitDeviceFailRet
    /\ UNCHANGED <<driverVars, deviceState, modVars, clientVars, modeVars, ghostVars>>

\* class_destroy(wy_module_class);
InitDeviceUndoClass ==
    /\ lpc = "init_device_undo_class"
    /\ LoaderMayStep
    /\ classState' = "freed"
    /\ authLog' = Append(authLog, Logged("class_destroy", 0))
    /\ lpc' = "init_device_undo_chrdev"
    /\ UNCHANGED <<driverVars, chrdev, deviceState, initRet, modVars, clientVars, modeVars, ghostVars>>

\* unregister_chrdev(wy_module_major_num, DEVICE_NAME);
\* return PTR_ERR(wy_module_device);
InitDeviceUndoChrdev ==
    /\ lpc = "init_device_undo_chrdev"
    /\ LoaderMayStep
    /\ chrdev' = chrdev \ {wy_module_major_num}
    /\ authLog' = Append(authLog, Logged("unregister_chrdev", 0))
    /\ lpc' = "init_failed"
    /\ initRet' = InitDeviceFailRet
    /\ UNCHANGED <<driverVars, classState, deviceState, modVars, clientVars, modeVars, ghostVars>>

\* ------------------------------------------------------------------
\* wy_module_exit, one kernel call per step.  It is called only on a
\* module whose init returned 0, and it looks at no driver state first.
\* ------------------------------------------------------------------

\* device_destroy(wy_module_class, MKDEV(wy_module_major_num, 0));
ExitDeviceDestroy ==
    /\ lpc = "init_done"
    /\ LoaderMayStep
    /\ deviceState' = "destroyed"
    /\ authLog' = Append(authLog, Logged("device_destroy", 0))
    /\ lpc' = "exit_class_unregister"
    /\ UNCHANGED <<driverVars, chrdev, classState, initRet, modVars, clientVars, modeVars, ghostVars>>

\* Mutant: the major number is given back before the class is destroyed.
ExitClassUnregister_ChrdevFirst ==
    /\ lpc = "exit_class_unregister"
    /\ LoaderMayStep
    /\ chrdev' = chrdev \ {wy_module_major_num}
    /\ authLog' = Append(authLog, Logged("unregister_chrdev", 0))
    /\ lpc' = "exit_class_destroy"
    /\ UNCHANGED <<driverVars, classState, deviceState, initRet, modVars, clientVars, modeVars, ghostVars>>

\* class_unregister(wy_module_class);
\* The class made by class_create is freed when it is unregistered.
ExitClassUnregister ==
    /\ lpc = "exit_class_unregister"
    /\ LoaderMayStep
    /\ classState' = "freed"
    /\ authLog' = Append(authLog, Logged("class_unregister", 0))
    /\ lpc' = "exit_class_destroy"
    /\ UNCHANGED <<driverVars, chrdev, deviceState, initRet, modVars, clientVars, modeVars, ghostVars>>

\* The positions the loader can be at after class_destroy(cls) returned or
\* died.  class_destroy unregisters cls again; on a class already freed that
\* is a use after free, which either goes unnoticed or ends in an oops that
\* kills the loader thread.
AfterExitClassDestroy ==
    IF classState = "freed" THEN {"exit_chrdev", "oops"} ELSE {"exit_chrdev"}

\* class_destroy(wy_module_class);
ExitClassDestroy ==
    /\ lpc = "exit_class_destroy"
    /\ LoaderMayStep
    /\ classState' = "freed"
    /\ authLog' = Append(authLog, Logged("class_destroy", 0))
    /\ lpc' \in AfterExitClassDestroy
    /\ UNCHANGED <<driverVars, chrdev, deviceState, initRet, modVars, clientVars, modeVars, ghostVars>>

\* unregister_chrdev(wy_module_major_num, DEVICE_NAME);
ExitUnregisterChrdev ==
    /\ lpc = "exit_chrdev"
    /\ LoaderMayStep
    /\ chrdev' = chrdev \ {wy_module_major_num}
    /\ authLog' = Append(authLog, Logged("unregister_chrdev", 0))
    /\ lpc' = "exit_done"
    /\ UNCHANGED <<driverVars, classState, deviceState, initRet, modVars, clientVars, modeVars, ghostVars>>

LoaderStep ==
    \/ InitRegister
    \/ InitClassCreate
    \/ InitClassUndo
    \/ InitDeviceCreate
    \/ InitDeviceUndoClass
    \/ InitDeviceUndoChrdev
    \/ ExitDeviceDestroy
    \/ ExitClassUnregister
    \/ ExitClassDestroy
    \/ ExitUnregisterChrdev

\* ------------------------------------------------------------------
\* The client threads.  A call is made through the file operations that
\* register_chrdev installed, so it can start while a major is registered.
\* ------------------------------------------------------------------

FopsInstalled == chrdev # {}

\* The caller's side of a call: client c enters operation o.
Enter(c, o, l, b) ==
    /\ pc[c] = "idle"
    /\ calls[c] < CallBudget
    /\ FopsInstalled
    /\ ClientMayCall
    /\ pc' = [pc EXCEPT ![c] = o]
    /\ op' = [op EXCEPT ![c] = o]
    /\ len' = [len EXCEPT ![c] = l]
    /\ buf' = [buf EXCEPT ![c] = b]
    /\ calls' = [calls EXCEPT ![c] = @ + 1]
    /\ entry' = [entry EXCEPT ![c] = wy_module_open_count]
    /\ UNCHANGED <<driverVars, kernelVars, modVars, loaderVars, modeVars, ghostVars, idx, tmp, ret, ubuf>>

CallOpen(c) == Enter(c, "open", 0, <<>>)

CallRelease(c) == Enter(c, "release", 0, <<>>)

CallWrite(c) == \E l \in Lengths : \E b \in WriteBufs : Enter(c, "write", l, b)

CallRead(c) == \E l \in Lengths : Enter(c, "read", l, <<>>)

\* The call returns r to its caller.
Done(c, r) ==
    /\ pc' = [pc EXCEPT ![c] = "done"]
    /\ ret' = [ret EXCEPT ![c] = r]

\* The caller takes the result and is free to make its next call.
Return(c) ==
    /\ pc[c] = "done"
    /\ pc' = [pc EXCEPT ![c] = "idle"]
    /\ op' = [op EXCEPT ![c] = "none"]
    /\ len' = [len EXCEPT ![c] = 0]
    /\ buf' = [buf EXCEPT ![c] = <<>>]
    /\ idx' = [idx EXCEPT ![c] = 0]
    /\ tmp' = [tmp EXCEPT ![c] = 0]
    /\ ret' = [ret EXCEPT ![c] = 0]
    /\ ubuf' = [ubuf EXCEPT ![c] = Untouched]
    /\ entry' = [entry EXCEPT ![c] = 0]
    /\ UNCHANGED <<driverVars, kernelVars, modVars, loaderVars, modeVars, ghostVars, calls>>

\* ---------------- wy_module_open ----------------

\* Mutant: the busy check is left out.
OpenIsBusy_Never == FALSE

\* if (wy_module_open_count)
OpenIsBusy == wy_module_open_count # 0

\* Mutant: a busy open gives the major number back, as if the error were
\* fatal to the endpoint.
OpenCheck_BusyIsFatal(c) ==
    /\ pc[c] = "open"
    /\ IF OpenIsBusy
          THEN Done(c, -EBUSY) /\ chrdev' = chrdev \ {wy_module_major_num}
          ELSE pc' = [pc EXCEPT ![c] = "open_load"] /\ ret' = ret /\ chrdev' = chrdev
    /\ UNCHANGED <<driverVars, classState, deviceState, authLog, modVars, loaderVars,
                   modeVars, ghostVars, op, len, buf, idx, tmp, ubuf, calls, entry>>

\* if (wy_module_open_count) return -EBUSY;
OpenCheck(c) ==
    /\ pc[c] = "open"
    /\ IF OpenIsBusy
          THEN Done(c, -EBUSY)
          ELSE pc' = [pc EXCEPT ![c] = "open_load"] /\ ret' = ret
    /\ UNCHANGED <<driverVars, kernelVars, modVars, loaderVars, modeVars, ghostVars,
                   op, len, buf, idx, tmp, ubuf, calls, entry>>

\* wy_module_open_count++ on a plain int: the load ...
OpenLoad(c) ==
    /\ pc[c] = "open_load"
    /\ tmp' = [tmp EXCEPT ![c] = wy_module_open_count]
    /\ pc' = [pc EXCEPT ![c] = "open_store"]
    /\ UNCHANGED <<driverVars, kernelVars, modVars, loaderVars, modeVars, ghostVars,
                   op, len, buf, idx, ret, ubuf, calls, entry>>

\* ... and the store of the incremented value.
OpenStore(c) ==
    /\ pc[c] = "open_store"
    /\ wy_module_open_count' = tmp[c] + 1
    /\ pc' = [pc EXCEPT ![c] = "open_get"]
    /\ UNCHANGED <<wy_module_major_num, params, wy_module_class, wy_module_device,
                   kernelVars, modVars, loaderVars, modeVars, ghostVars,
                   op, len, buf, idx, tmp, ret, ubuf, calls, entry>>

\* try_module_get(THIS_MODULE); return 0;
OpenGet(c) ==
    /\ pc[c] = "open_get"
    /\ modGets' = modGets + 1
    /\ Done(c, 0)
    /\ UNCHANGED <<driverVars, kernelVars, modPuts, loaderVars, modeVars, ghostVars,
                   op, len, buf, idx, tmp, ubuf, calls, entry>>

\* ---------------- wy_module_release ----------------

\* Mutant: the counter is decremented whatever its value.
ReleaseIsHeld_Always == TRUE

\* Mutant: the counter is decremented only above 1.
ReleaseIsHeld_OffByOne == wy_module_open_count > 1

\* if (wy_module_open_count)
ReleaseIsHeld == wy_module_open_count # 0

ReleaseCheck(c) ==
    /\ pc[c] = "release"
    /\ pc' = [pc EXCEPT ![c] = IF ReleaseIsHeld THEN "release_load" ELSE "release_put"]
    /\ UNCHANGED <<driverVars, kernelVars, modVars, loaderVars, modeVars, ghostVars,
                   op, len, buf, idx, tmp, ret, ubuf, calls, entry>>

\* wy_module_open_count-- on a plain int: the load ...
ReleaseLoad(c) ==
    /\ pc[c] = "release_load"
    /\ tmp' = [tmp EXCEPT ![c] = wy_module_open_count]
    /\ pc' = [pc EXCEPT ![c] = "release_store"]
    /\ UNCHANGED <<driverVars, kernelVars, modVars, loaderVars, modeVars, ghostVars,
                   op, len, buf, idx, ret, ubuf, calls, entry>>

\* Mutant: giving the device up also clears the stored record.
ReleaseStore_ClearsRecord(c) ==
    /\ pc[c] = "release_store"
    /\ wy_module_open_count' = tmp[c] - 1
    /\ params' = [i \in 1..SizeofParams |-> 0]
    /\ pc' = [pc EXCEPT ![c] = "release_put"]
    /\ UNCHANGED <<wy_module_major_num, wy_module_class, wy_module_device,
                   kernelVars, modVars, loaderVars, modeVars, ghostVars,
                   op, len, buf, idx, tmp, ret, ubuf, calls, entry>>

\* ... and the store of the decremented value.
ReleaseStore(c) ==
    /\ pc[c] = "release_store"
    /\ wy_module_open_count' = tmp[c] - 1
    /\ pc' = [pc EXCEPT ![c] = "release_put"]
    /\ UNCHANGED <<wy_module_major_num, params, wy_module_class, wy_module_device,
                   kernelVars, modVars, loaderVars, modeVars, ghostVars,
                   op, len, buf, idx, tmp, ret, ubuf, calls, entry>>

\* module_put(THIS_MODULE); return 0;
ReleasePut(c) ==
    /\ pc[c] = "release_put"
    /\ modPuts' = modPuts + 1
    /\ Done(c, 0)
    /\ UNCHANGED <<driverVars, kernelVars, modGets, loaderVars, modeVars, ghostVars,
                   op, len, buf, idx, tmp, ubuf, calls, entry>>

\* ---------------- wy_module_write ----------------

\* Mutant: a transfer shorter than the record is let through.
SizeMatches_AtMost(l) == l <= SizeofParams

\* len != sizeof(params_t), negated
SizeMatches(l) == l = SizeofParams

\* Mutant: a write is refused unless the device is held.
WriteCheck_NeedsHolder(c) ==
    /\ pc[c] = "write"
    /\ IF SizeMatches(len[c]) /\ wy_module_open_count > 0
          THEN /\ pc' = [pc EXCEPT ![c] = "write_loop"]
               /\ idx' = [idx EXCEPT ![c] = 0]
               /\ ret' = ret
          ELSE Done(c, 0) /\ idx' = idx
    /\ UNCHANGED <<driverVars, kernelVars, modVars, loaderVars, modeVars, ghostVars,
                   op, len, buf, tmp, ubuf, calls, entry>>

\* bytes_written = 0; if (len != sizeof(params_t)) return 0;
WriteCheck(c) ==
    /\ pc[c] = "write"
    /\ IF SizeMatches(len[c])
          THEN /\ pc' = [pc EXCEPT ![c] = "write_loop"]
               /\ idx' = [idx EXCEPT ![c] = 0]
               /\ ret' = ret
          ELSE Done(c, 0) /\ idx' = idx
    /\ UNCHANGED <<driverVars, kernelVars, modVars, loaderVars, modeVars, ghostVars,
                   op, len, buf, tmp, ubuf, calls, entry>>

\* while (bytes_written < len)
\*     { get_user(*paramPtr, buffer++); paramPtr++; bytes_written++; }
WriteLoop(c) ==
    /\ pc[c] = "write_loop"
    /\ idx[c] < len[c]
    /\ params' = [params EXCEPT ![idx[c] + 1] = buf[c][idx[c] + 1]]
    /\ idx' = [idx EXCEPT ![c] = @ + 1]
    /\ lastRead' = <<>>
    /\ UNCHANGED <<wy_module_open_count, wy_module_major_num, wy_module_class,
                   wy_module_device, kernelVars, modVars, loaderVars, modeVars,
                   lastWritten, pc, op, len, buf, tmp, ret, ubuf, calls, entry>>

\* switch (params.cmd) { default: printk(...); } return bytes_written;
WriteEnd(c) ==
    /\ pc[c] = "write_loop"
    /\ ~(idx[c] < len[c])
    /\ Done(c, idx[c])
    /\ lastWritten' = IF serial THEN SubSeq(buf[c], 1, idx[c]) ELSE lastWritten
    /\ UNCHANGED <<driverVars, kernelVars, modVars, loaderVars, modeVars,
                   lastRead, op, len, buf, idx, tmp, ubuf, calls, entry>>

\* ---------------- wy_module_read ----------------

\* bytes_read = 0; if (len != sizeof(params_t)) return 0;
ReadCheck(c) ==
    /\ pc[c] = "read"
    /\ IF SizeMatches(len[c])
          THEN /\ pc' = [pc EXCEPT ![c] = "read_loop"]
               /\ idx' = [idx EXCEPT ![c] = 0]
               /\ ret' = ret
          ELSE Done(c, 0) /\ idx' = idx
    /\ UNCHANGED <<driverVars, kernelVars, modVars, loaderVars, modeVars, ghostVars,
                   op, len, buf, tmp, ubuf, calls, entry>>

\* Mutant: paramPtr is not advanced, so every byte read is the first one.
ReadLoop_FirstByte(c) ==
    /\ pc[c] = "read_loop"
    /\ idx[c] < len[c]
    /\ ubuf' = [ubuf EXCEPT ![c][idx[c] + 1] = params[1]]
    /\ idx' = [idx EXCEPT ![c] = @ + 1]
    /\ UNCHANGED <<driverVars, kernelVars, modVars, loaderVars, modeVars, ghostVars,
                   pc, op, len, buf, tmp, ret, calls, entry>>

\* Mutant: a byte is cleared in params once it has been read.
ReadLoop_Consuming(c) ==
    /\ pc[c] = "read_loop"
    /\ idx[c] < len[c]
    /\ ubuf' = [ubuf EXCEPT ![c][idx[c] + 1] = params[idx[c] + 1]]
    /\ params' = [params EXCEPT ![idx[c] + 1] = 0]
    /\ idx' = [idx EXCEPT ![c] = @ + 1]
    /\ UNCHANGED <<wy_module_open_count, wy_module_major_num, wy_module_class,
                   wy_module_device, kernelVars, modVars, loaderVars, modeVars,
                   ghostVars, pc, op, len, buf, tmp, ret, calls, entry>>

\* while (bytes_read < len)
\*     { put_user(*paramPtr, buffer++); paramPtr++; bytes_read++; }
ReadLoop(c) ==
    /\ pc[c] = "read_loop"
    /\ idx[c] < len[c]
    /\ ubuf' = [ubuf EXCEPT ![c][idx[c] + 1] = params[idx[c] + 1]]
    /\ idx' = [idx EXCEPT ![c] = @ + 1]
    /\ UNCHANGED <<driverVars, kernelVars, modVars, loaderVars, modeVars, ghostVars,
                   pc, op, len, buf, tmp, ret, calls, entry>>

\* return bytes_read;
ReadEnd(c) ==
    /\ pc[c] = "read_loop"
    /\ ~(idx[c] < len[c])
    /\ Done(c, idx[c])
    /\ lastRead' = IF serial THEN SubSeq(ubuf[c], 1, idx[c]) ELSE lastRead
    /\ UNCHANGED <<driverVars, kernelVars, modVars, loaderVars, modeVars,
                   lastWritten, op, len, buf, idx, tmp, ubuf, calls, entry>>

\* One step of client c inside a call.
HandlerStep(c) ==
    \/ OpenCheck(c)
    \/ OpenLoad(c)
    \/ OpenStore(c)
    \/ OpenGet(c)
    \/ ReleaseCheck(c)
    \/ ReleaseLoad(c)
    \/ ReleaseStore(c)
    \/ ReleasePut(c)
    \/ WriteCheck(c)
    \/ WriteLoop(c)
    \/ WriteEnd(c)
    \/ ReadCheck(c)
    \/ ReadLoop(c)
    \/ ReadEnd(c)

\* Client c makes a call.
CallStep(c) ==
    \/ CallOpen(c)
    \/ CallRelease(c)
    \/ CallWrite(c)
    \/ CallRead(c)

\* ------------------------------------------------------------------
\* The specifications.  Spec: the threads interleave step by step.
\* SeqSpec: the same steps, with the calls made one after the other.
\* ------------------------------------------------------------------

Next ==
    \/ LoaderStep
    \/ \E c \in Clients : CallStep(c) \/ HandlerStep(c) \/ Return(c)

Spec == Init /\ [][Next]_vars

SeqSpec == SeqInit /\ [][Next]_vars

\* ------------------------------------------------------------------
\* The design's vocabulary, read off the program's state
\* ------------------------------------------------------------------

HolderCount == wy_module_open_count

\* The design's name of a kernel call.
Kind(call) ==
    CASE call = "register_chrdev"   -> "register"
      [] call = "class_create"      -> "createClass"
      [] call = "device_create"     -> "publish"
      [] call = "device_destroy"    -> "unpublish"
      [] call = "class_unregister"  -> "destroyClass"
      [] call = "class_destroy"     -> "destroyClass"
      [] call = "unregister_chrdev" -> "deregister"

\* The place of a releasing call in the teardown order.
Rank(kind) ==
    CASE kind = "unpublish"    -> 1
      [] kind = "destroyClass" -> 2
      [] kind = "deregister"   -> 3
      [] OTHER                 -> 0

\* The kinds of the calls of a log, in order.
Kinds(log) == [i \in DOMAIN log |-> Kind(log[i].call)]

\* How many calls of a kind a log holds.
KindCount(log, kind) == Cardinality({i \in DOMAIN log : Kind(log[i].call) = kind})

\* How many calls of a kind succeeded.
Succeeded(log, kind) ==
    Cardinality({i \in DOMAIN log : Kind(log[i].call) = kind /\ log[i].result >= 0})

\* The error codes the kernel gave so far.
ErrorsGiven == {authLog[i].result : i \in {j \in DOMAIN authLog : authLog[j].result < 0}}

\* The positions of the loader inside and after wy_module_exit.
ExitRunning == {"exit_class_unregister", "exit_class_destroy", "exit_chrdev"}
ExitPcs == ExitRunning \cup {"exit_done", "oops"}

\* The kernel calls wy_module_exit made: those after the three of a
\* successful wy_module_init.
ExitLog == SubSeq(authLog, 4, Len(authLog))

\* The endpoint's lifecycle state.
EndpointState ==
    IF lpc = "init_failed" THEN "Failed"
    ELSE IF deviceState = "live" THEN "Exposed"
    ELSE IF classState = "live" THEN "ClassBound"
    ELSE IF chrdev # {} THEN "Registered"
    ELSE "Unregistered"

\* The record before any write.
InitialRecord == [i \in 1..SizeofParams |-> 0]

\* Client c's read or write of a whole record has returned.
TransferReturned(c, o) == pc[c] = "done" /\ op[c] = o /\ len[c] = SizeofParams

\* The bytes the driver put into client c's read buffer.
BytesRead(c) == SubSeq(ubuf[c], 1, SizeofParams)

\* The bytes client c handed to write.
BytesGiven(c) == SubSeq(buf[c], 1, SizeofParams)

\* What the most recent successful write of the serial callers left to read.
ExpectedRecord == IF lastWritten = <<>> THEN InitialRecord ELSE lastWritten

\* The positions of the loader inside wy_module_init.
InitRunning == {"init_register", "init_class", "init_class_undo", "init_device",
                "init_device_undo_class", "init_device_undo_chrdev"}

\* The acquiring kinds of call, in the order of the registration steps.
CreateOrder == <<"register", "createClass", "publish">>

IsCreate(kind) == \E i \in DOMAIN CreateOrder : CreateOrder[i] = kind

\* The acquiring calls made so far, in order.
CreateCalls == SelectSeq(Kinds(authLog), IsCreate)

\* The place of a lifecycle state on the way to Exposed.
StateIndex(state) ==
    CASE state = "Unregistered" -> 0
      [] state = "Registered"   -> 1
      [] state = "ClassBound"   -> 2
      [] state = "Exposed"      -> 3
      [] OTHER                  -> -1

OpenReturned(c) == pc[c] = "done" /\ op[c] = "open"

ReleaseReturned(c) == pc[c] = "done" /\ op[c] = "release"

NoReleaseCalled == modPuts = 0 /\ \A c \in Clients : op[c] # "release"

\* ------------------------------------------------------------------
\* The claims
\* ------------------------------------------------------------------

\* C1: of the concurrent acquire calls started while HolderCount is 0 (no
\* release is ever called) on the exposed endpoint, at most one returns
\* success; the others return -EBUSY.
C1_OneAcquirerAtMost ==
    (NoReleaseCalled /\ EndpointState = "Exposed") =>
        \A c, d \in Clients :
            (/\ c # d
             /\ OpenReturned(c) /\ entry[c] = 0
             /\ OpenReturned(d) /\ entry[d] = 0
             /\ ret[c] = 0) => ret[d] = -EBUSY

\* C2: with the calls made one after the other, an acquire made while
\* HolderCount is 1 returns -EBUSY and leaves HolderCount at 1; a release made
\* while it is 1 sets it to 0, and the acquire that follows (made while it is
\* 0) succeeds and sets it to 1.
C2_SequentialAcquire ==
    \A c \in Clients :
        /\ (OpenReturned(c) /\ entry[c] = 1) => (ret[c] = -EBUSY /\ HolderCount = 1)
        /\ (ReleaseReturned(c) /\ entry[c] = 1) => HolderCount = 0
        /\ (OpenReturned(c) /\ entry[c] = 0) => (ret[c] = 0 /\ HolderCount = 1)

\* C2 witness: a second acquire has succeeded after the release of the first.
C2_Witness ==
    \E c \in Clients :
        OpenReturned(c) /\ ret[c] = 0 /\ entry[c] = 0 /\ modGets = 2 /\ modPuts = 1

\* C3: HolderCount is 0 or 1 in every state, and a step changes it only if
\* it is the store of acquire or of release: the steps of read, write, init
\* and teardown leave it unchanged.
C3_HolderCountRange ==
    /\ [](HolderCount \in {0, 1})
    /\ [][HolderCount' # HolderCount =>
            \E c \in Clients : OpenStore(c) \/ ReleaseStore(c)]_vars

\* C3 witness: acquire, release, acquire, a write and a whole teardown have
\* run, and HolderCount is 1.
C3_Witness ==
    /\ HolderCount = 1
    /\ lpc = "exit_done"
    /\ modPuts = 1
    /\ params[1] # 0

\* C4: release returns 0; made while HolderCount is 1 it sets it to 0, made
\* while HolderCount is 0 it leaves it at 0; HolderCount is never negative.
C4_ReleaseIdempotent ==
    /\ HolderCount >= 0
    /\ \A c \in Clients :
          ReleaseReturned(c) =>
              /\ ret[c] = 0
              /\ entry[c] = 1 => HolderCount = 0
              /\ entry[c] = 0 => HolderCount = 0

\* C4 witness: acquire, release and a second release in a row have returned.
C4_Witness ==
    \E c \in Clients :
        /\ ReleaseReturned(c) /\ entry[c] = 0 /\ ret[c] = 0
        /\ modGets = 1 /\ modPuts = 2

\* C5: when wy_module_init has returned an error, nothing is held: no major
\* is registered, no class and no device is live, every major that was
\* registered was unregistered once, every class that was created was
\* destroyed once, and no device was created.
C5_RollbackComplete ==
    lpc = "init_failed" =>
        /\ chrdev = {}
        /\ classState # "live"
        /\ deviceState # "live"
        /\ KindCount(authLog, "deregister") = Succeeded(authLog, "register")
        /\ KindCount(authLog, "destroyClass") = Succeeded(authLog, "createClass")
        /\ KindCount(authLog, "unpublish") = 0
        /\ Succeeded(authLog, "publish") = 0

\* C5 witness: class_create failed and wy_module_init has returned.
C5_Witness ==
    /\ lpc = "init_failed"
    /\ wy_module_class < 0
    /\ Succeeded(authLog, "register") = 1

\* C6: the calls of a failed wy_module_init are, when register_chrdev
\* failed, that call alone; when class_create failed, the deregistration
\* alone after it; when device_create failed, the class destroy and then the
\* deregistration after it.
C6_RollbackOrder ==
    lpc = "init_failed" =>
        /\ wy_module_major_num < 0 =>
              Kinds(authLog) = <<"register">>
        /\ (wy_module_major_num >= 0 /\ IS_ERR(wy_module_class)) =>
              Kinds(authLog) = <<"register", "createClass", "deregister">>
        /\ (wy_module_major_num >= 0 /\ ~IS_ERR(wy_module_class)) =>
              Kinds(authLog) = <<"register", "createClass", "publish",
                                 "destroyClass", "deregister">>

\* C6 witness: device_create failed and both rollback calls were made.
C6_Witness ==
    /\ lpc = "init_failed"
    /\ IS_ERR(wy_module_device)
    /\ Len(authLog) = 5

\* C7: when wy_module_init has failed, the kernel gave exactly one error
\* code, and it is the value wy_module_init returned.
C7_InitReturnsStepError ==
    lpc = "init_failed" => ErrorsGiven = {initRet}

\* C7 witness: device_create failed with -12, both rollback calls were
\* made, and wy_module_init returned -12.
C7_Witness ==
    /\ lpc = "init_failed"
    /\ Len(authLog) = 5
    /\ authLog[3].result = -12
    /\ initRet = -12

C9_ReleasedExactlyOnce ==
    lpc = "exit_done" =>
        /\ KindCount(authLog, "unpublish") = 1
        /\ KindCount(authLog, "destroyClass") = 1
        /\ KindCount(authLog, "deregister") = 1
        /\ chrdev = {}
        /\ classState # "live"
        /\ deviceState # "live"

\* C10: every step of a write or a read called with a length other than
\* sizeof(params_t) leaves the stored record and the user buffers as they
\* are and returns 0.
C10_SizeGuard ==
    [][\A c \in Clients :
          (/\ op[c] \in {"read", "write"}
           /\ len[c] # SizeofParams
           /\ HandlerStep(c))
          => /\ params' = params
             /\ ubuf' = ubuf
             /\ pc'[c] = "done"
             /\ ret'[c] = 0]_vars

\* C10 witness: a write of one byte too many has returned 0 while the
\* record still holds what an earlier write of other bytes stored.
C10_Witness ==
    \E c \in Clients :
        /\ pc[c] = "done" /\ op[c] = "write"
        /\ len[c] = SizeofParams + 1
        /\ ret[c] = 0
        /\ params[1] # 0
        /\ params # SubSeq(buf[c], 1, SizeofParams)

\* C11: with the calls made one after the other, a write of sizeof(params_t)
\* bytes returns sizeof(params_t) and stores exactly its bytes, and a read of
\* sizeof(params_t) bytes returns sizeof(params_t) and exactly the bytes of
\* the most recent such write (the initial record if there was none),
\* touching no byte of the user buffer beyond them.
C11_RoundTrip ==
    \A c \in Clients :
        /\ TransferReturned(c, "write") =>
              /\ ret[c] = SizeofParams
              /\ params = BytesGiven(c)
              /\ lastWritten = BytesGiven(c)
        /\ TransferReturned(c, "read") =>
              /\ ret[c] = SizeofParams
              /\ BytesRead(c) = ExpectedRecord
              /\ ubuf[c][SizeofParams + 1] = Untouched[SizeofParams + 1]

\* C11 witness: a read has returned the bytes of an earlier write.
C11_Witness ==
    \E c \in Clients :
        /\ TransferReturned(c, "read")
        /\ lastWritten \in {SubSeq(b, 1, SizeofParams) : b \in WriteBufs}
        /\ BytesRead(c) = lastWritten

\* C12: an acquire returns success only while the endpoint is Exposed.
C12_AcquireOnlyWhenExposed ==
    [][\A c \in Clients : OpenGet(c) => EndpointState = "Exposed"]_vars

\* C13: the step on which an acquire returns -EBUSY, or a read or write is
\* rejected for its length, leaves the major number, the class and device
\* handles, the kernel's registrations and the lifecycle state as they are;
\* and on the exposed endpoint every whole-record transfer returns
\* sizeof(params_t) and every acquire made at HolderCount 0 returns 0,
\* whatever errors came before.
C13_TransferErrorsNotFatal ==
    /\ [][\A c \in Clients :
             (/\ HandlerStep(c)
              /\ pc'[c] = "done"
              /\ \/ op[c] = "open" /\ ret'[c] = -EBUSY
                 \/ op[c] \in {"read", "write"} /\ len[c] # SizeofParams)
             => /\ UNCHANGED <<wy_module_major_num, wy_module_class, wy_module_device>>
                /\ UNCHANGED <<kernelVars, loaderVars>>
                /\ EndpointState' = EndpointState]_vars
    /\ [](\A c \in Clients :
             lpc = "init_done" =>
                 /\ EndpointState = "Exposed" /\ FopsInstalled
                 /\ TransferReturned(c, "read") => ret[c] = SizeofParams
                 /\ TransferReturned(c, "write") => ret[c] = SizeofParams
                 /\ (OpenReturned(c) /\ entry[c] = 0) => ret[c] = 0)

\* C13 witness: an acquire has returned -EBUSY on the exposed endpoint, which
\* still takes calls.
C13_Witness ==
    \E c \in Clients :
        /\ OpenReturned(c) /\ ret[c] = -EBUSY
        /\ EndpointState = "Exposed"
        /\ FopsInstalled
        /\ calls[c] < CallBudget

\* A move of the lifecycle state that a step of wy_module_init may make.
C14_StateMove ==
    \/ EndpointState' = EndpointState
    \/ EndpointState' = "Failed"
    \/ StateIndex(EndpointState') = StateIndex(EndpointState) + 1
    \/ /\ lpc \in {"init_class_undo", "init_device_undo_class", "init_device_undo_chrdev"}
       /\ StateIndex(EndpointState') = StateIndex(EndpointState) - 1

\* C14: the acquiring calls of wy_module_init are a beginning of register,
\* createClass, publish (each at most once, in that order); every one of
\* them that is followed by another has succeeded; and while init runs the
\* lifecycle state moves forward one state at a time, or back one state in a
\* rollback, or to Failed.
C14_StepsInOrder ==
    /\ [](/\ Len(CreateCalls) <= Len(CreateOrder)
          /\ CreateCalls = SubSeq(CreateOrder, 1, Len(CreateCalls))
          /\ \A i, j \in DOMAIN authLog :
                (i < j /\ IsCreate(Kind(authLog[i].call)) /\ IsCreate(Kind(authLog[j].call)))
                => authLog[i].result >= 0)
    /\ [][(lpc \in InitRunning) => (C14_StateMove)]_vars

\* C14 witness: wy_module_init has made its three calls and the endpoint is
\* Exposed.
C14_Witness ==
    /\ lpc = "init_done"
    /\ CreateCalls = CreateOrder
    /\ Len(authLog) = 3
    /\ EndpointState = "Exposed"

\* The records a read may return: the initial one and those of whole writes.
WholeRecords == {InitialRecord} \cup {SubSeq(b, 1, SizeofParams) : b \in WriteBufs}

\* C15: under any interleaving of the transfer calls, the bytes a
\* whole-record read returns are the initial record or the bytes of one
\* single write, never a mixture.
C15_NoTornRead ==
    \A c \in Clients :
        (EndpointState = "Exposed" /\ TransferReturned(c, "read"))
            => BytesRead(c) \in WholeRecords

\* A read or write call of client c that has returned, of any length.
AnyTransferReturned(c) == pc[c] = "done" /\ op[c] \in {"read", "write"}

\* C16: read and write do not consult HolderCount: the result of a
\* transfer depends on the length given alone, a whole record is moved
\* whether or not anybody holds the device, and a transfer leaves
\* HolderCount as it was at the call.
C16_TransfersIgnoreHolders ==
    \A c \in Clients :
        AnyTransferReturned(c) =>
            /\ ret[c] = (IF len[c] = SizeofParams THEN SizeofParams ELSE 0)
            /\ HolderCount = entry[c]
            /\ (op[c] = "write" /\ len[c] = SizeofParams) => params = BytesGiven(c)
            /\ (op[c] = "read" /\ len[c] = SizeofParams) => BytesRead(c) = params

C16_Witness ==
    \E c \in Clients :
        /\ AnyTransferReturned(c)
        /\ op[c] = "write"
        /\ entry[c] = 0
        /\ modGets = 0
        /\ ret[c] = SizeofParams
        /\ params = BytesGiven(c)

\* Client c's read has copied its last byte and is about to return.
ReadComplete(c) == pc[c] = "read_loop" /\ idx[c] = len[c]

\* A step of client c inside wy_module_read.
ReadStep(c) == ReadCheck(c) \/ ReadLoop(c) \/ ReadEnd(c)

\* C17: a read has no side effect on the driver's state (the record, the
\* holder count, the handles, the kernel's objects, the module's
\* references), and of two reads with no write between them the second
\* returns the bytes the first returned.
C17_ReadIsPure ==
    /\ [](\A c \in Clients :
            (ReadComplete(c) /\ lastRead # <<>>) => BytesRead(c) = lastRead)
    /\ [][\A c \in Clients :
            ReadStep(c) => UNCHANGED <<driverVars, kernelVars, modVars, loaderVars>>]_vars

C17_Witness ==
    \E c \in Clients :
        /\ ReadComplete(c)
        /\ lastRead # <<>>
        /\ lastRead = lastWritten
        /\ BytesRead(c) = lastRead

\* C18: the module references dropped never exceed those taken, and
\* between calls the references outstanding equal HolderCount, also after
\* an acquire that was refused and after a release at HolderCount 0.
C18_ReferencesBalanced ==
    /\ modPuts <= modGets
    /\ ClientsResting => modGets - modPuts = HolderCount

\* A step of wy_module_init.
InitStep == (lpc \in InitRunning) /\ LoaderStep

\* The serial callers under a fair scheduler: a call under way is run to
\* its return, and the thread of insmod gets to run whenever no call is
\* in the way again and again.
LiveSpec ==
    /\ SeqInit
    /\ [][Next]_vars
    /\ \A c \in Clients : WF_vars(HandlerStep(c) \/ Return(c))
    /\ SF_vars(InitStep)

\* All three registration steps of wy_module_init succeeded.
AllStepsSucceeded ==
    /\ Succeeded(authLog, "register") = 1
    /\ Succeeded(authLog, "createClass") = 1
    /\ Succeeded(authLog, "publish") = 1

\* wy_module_init has returned and wy_module_exit has not begun.
InitReturned == lpc \in {"init_done", "init_failed"}

\* C19: wy_module_init always terminates; it returns 0 exactly when
\* all three steps succeeded, and then the endpoint is Exposed; in every
\* other case it returns a negative error code and the endpoint is Failed.
C19_InitTerminates ==
    /\ <>(lpc \notin InitRunning)
    /\ [](InitReturned =>
            /\ (initRet = 0) <=> (AllStepsSucceeded /\ EndpointState = "Exposed")
            /\ (initRet # 0) => (initRet < 0 /\ EndpointState = "Failed")
            /\ EndpointState \in {"Exposed", "Failed"})

C19_Witness ==
    /\ lpc = "init_done"
    /\ initRet = 0
    /\ AllStepsSucceeded
    /\ EndpointState = "Exposed"

\* A step of client c inside wy_module_open.
OpenStep(c) == OpenCheck(c) \/ OpenLoad(c) \/ OpenStore(c) \/ OpenGet(c)

\* A step of client c inside wy_module_release.
ReleaseStep(c) ==
    ReleaseCheck(c) \/ ReleaseLoad(c) \/ ReleaseStore(c) \/ ReleasePut(c)

\* No write is in the middle of its copy loop.
NoWriteUnderWay == \A c \in Clients : pc[c] # "write_loop"

====
